---- MODULE Spec2Model ----
(***************************************************************************)
(* Job-queue orchestration core of the SEO content agent                   *)
(* (src/backend/main.py): the catalog mirror (products, collections), the  *)
(* audit table seo_content, the one-row system_state table, the scan_all   *)
(* request handler, the process_pending_items background task, the        *)
(* toggle_pause and trigger_processing handlers.                           *)
(*                                                                         *)
(* The backend is one asyncio event loop: a handler or task runs alone     *)
(* from one await that really suspends (an httpx request, asyncio.sleep)   *)
(* to the next.  The variable running holds the task that owns the loop    *)
(* between two such awaits; every other handler waits for running = 0.     *)
(* The calls to the content generator use the synchronous OpenAI client    *)
(* and do not suspend.                                                     *)
(***************************************************************************)
EXTENDS Integers, Sequences, FiniteSets, Bags, TLC

\* ------------------------------------------------------------------ bounds
\* scan_all requests served in one behaviour
MaxScans == 2
\* trigger_processing requests served in one behaviour
MaxTriggers == 1
\* process_pending_items tasks started in one behaviour
MaxRuns == 2
\* restarts of the backend process in one behaviour (SpecRestart)
MaxRestarts == 1
\* process_pending_items tasks started in one behaviour of SpecRestart
MaxRunsRestart == 1
\* scan_all requests that may be in flight together
NumScanSlots == 2
\* process_pending_items tasks that may be in flight together
NumProcSlots == 2
\* products of the large provider catalog
FloodProducts == 102
\* products of the provider catalog of more than one page (SpecPages)
PagedProducts == 537
\* scan_all requests served in one behaviour of SpecPages
MaxScansPages == 1
\* cycles of the worker's main_loop in one behaviour (SpecWorker)
MaxCycles == 2
\* process_pending_items tasks started in one behaviour of SpecWorker
MaxRunsWorker == 1
\* calls of the catalog client of shopify_service.py (SpecClient)
MaxCalls == 2
\* scan_all requests served in one behaviour of SpecStuck
MaxScansStuck == 1
\* scan_all requests served in one behaviour of SpecProgress
MaxScansProgress == 1

\* ------------------------------------------------------- program constants
\* total_new > 100 trips the auto-pause
AutoPauseThreshold == 100
\* .limit(2) on the pending products
ProductBatch == 2
\* .limit(1) on the pending collections
CollectionBatch == 1
\* get_products(limit=250): one page of at most 250 products is requested
PageLimit == 250
\* scheduler.py, BATCH_MIN_PENDING: the worker scans when fewer items than
\* this are pending
SCAN_WHEN_PENDING_LT == 10

Scans == 1..NumScanSlots
Procs == 1..NumProcSlots

VARIABLES
    products,       \* table products (see EmptyTable)
    collections,    \* table collections (see EmptyTable)
    seo_content,    \* table seo_content, a bag of rows (no order is read)
    system_state,   \* table system_state (no row before the first access)
    shop,           \* the provider's catalog (index into Catalogs)
    scan,           \* scan_all requests in flight: position and session
    proc,           \* process_pending_items tasks: position, locals, session
    scheduled,      \* background tasks added and not yet started
    running,        \* the task that owns the event loop, 0 when none does
    count,          \* requests served so far: scan_all (scans) and
                    \* trigger_processing (triggers); tasks started so far
                    \* (runs); restarts of the backend so far (restarts)
    writeback,      \* the items whose update_product call returned True
    worker,         \* scheduler.py: the worker's position and locals
    client          \* shopify_service.py: the calls made and their results

vars == <<products, collections, seo_content, system_state, shop, scan, proc,
          scheduled, running, count, writeback, worker, client>>

\* ------------------------------------------------------------ pure helpers
Min(a, b) == IF a < b THEN a ELSE b

Ids(n) == [i \in 1..n |-> i]

\* the mutant of Limit: no limit is applied
LimitIgnored(s, n) == s

\* the first n elements of s: SQL LIMIT n, a page of n items
Limit(s, n) == SubSeq(s, 1, Min(n, Len(s)))

HasDuplicate(s) == \E i, j \in DOMAIN s : i < j /\ s[i] = s[j]

\* class Product / class Collection: the columns the orchestration reads or
\* writes.  A table is held as the shopify_id and title columns in
\* primary-key order (ids, titles) and, for the rows updated since their
\* insertion, the other columns (upd); a row never updated holds what the
\* insert gave it: status pending, seo_written False (the column default),
\* processed_at NULL.
EmptyTable == [ids |-> <<>>, titles |-> <<>>, upd |-> <<>>]

NewRow == [status |-> "pending", seo_written |-> FALSE, processed_at |-> FALSE]

Keys(table) == DOMAIN table.ids

Row(table, k) == IF k \in DOMAIN table.upd THEN table.upd[k] ELSE NewRow

ShopifyIds(table) == {table.ids[k] : k \in Keys(table)}

\* the title the provider reports for every item of its i-th catalog: the
\* items are renamed when the catalog changes
Title(i) == i

\* the mutant of Insert: the scan also writes the reported title to the
\* rows it found in the mirror
InsertRefreshes(table, new, title) ==
    [table EXCEPT !.ids = @ \o new,
                  !.titles = [k \in 1..(Len(@) + Len(new)) |-> title]]

\* db.add(...) of one row per id of the sequence new, each with the title
\* the provider reported, then the commit
Insert(table, new, title) ==
    [table EXCEPT !.ids = @ \o new,
                  !.titles = @ \o [k \in DOMAIN new |-> title]]

\* the commit of a row whose columns were assigned
Update(table, k, row) ==
    [table EXCEPT !.upd = [j \in DOMAIN @ \cup {k} |->
                              IF j = k THEN row ELSE @[j]]]

\* the mutant of PendingRows: the rows left processing are selected too
PendingRowsOrProcessing(table, n) ==
    Limit(SelectSeq([k \in 1..Len(table.ids) |-> k],
                    LAMBDA k : Row(table, k).status
                                  \in {"pending", "processing"}), n)

\* db.query(T).filter(T.status == "pending").limit(n).all(): the primary keys
\* of the first n pending rows
PendingRows(table, n) ==
    Limit(SelectSeq([k \in 1..Len(table.ids) |-> k],
                    LAMBDA k : Row(table, k).status = "pending"), n)

\* the provider's catalog: a small one, and the one it grows into, large
\* enough to trip the auto-pause, in which the two collection listings
\* return the same id
Catalogs ==
    << [products |-> Ids(2), smart |-> <<>>, custom |-> <<>>],
       [products |-> Ids(FloodProducts), smart |-> <<1>>, custom |-> <<1>>] >>

\* the catalog of a shop with more products than one page holds
PagedCatalog ==
    [products |-> Ids(PagedProducts), smart |-> <<>>, custom |-> <<>>]

\* the provider's catalog for the value of the variable shop: an index into
\* Catalogs, or the index after the last for the shop of PagedCatalog
Catalog(i) == IF i \in DOMAIN Catalogs THEN Catalogs[i] ELSE PagedCatalog

\* class SystemState and init_system_state: the row a first access creates
NewSystemState ==
    [is_paused |-> FALSE, auto_pause_triggered |-> FALSE, last_scan |-> 0,
     products_found_in_last_scan |-> 0, collections_found_in_last_scan |-> 0,
     total_items_processed |-> 0]

\* the mutant of init_system_state: a row is added without the query for
\* the first row
init_system_state_adds(table) == Append(table, NewSystemState)

\* state = db.query(SystemState).first(); if not state: init_system_state(db)
init_system_state(table) ==
    IF table = <<>> THEN <<NewSystemState>> ELSE table

\* the mutant of scan_paused: the pause flag is not read
scan_paused_ignored(state) == FALSE

\* scan_all: if state.is_paused: return {"error": "System is paused", ...}
scan_paused(state) == state.is_paused

\* the mutant of process_paused: the pause flag is not read
process_paused_ignored(state) == FALSE

\* process_pending_items: if state.is_paused: return
process_paused(state) == state.is_paused

\* the mutant of SafetyCheck: the comparison is off by one
SafetyCheckOffByOne(total_new) == total_new >= AutoPauseThreshold

\* scan_all, the safety check: if total_new > 100
SafetyCheck(total_new) == total_new > AutoPauseThreshold

\* ShopifyService.get_products: the first page of the catalog on a 200
\* response, [] on any other response or transport error
get_products(catalog) == {Limit(catalog.products, PageLimit), <<>>}

\* what the provider does with a request of the catalog client: a 200
\* response, a response with another status, no response
Responses == {"ok", "status_error", "transport_error"}

\* ShopifyService.get_collections for the responses to its two requests
\* ("ok", "status_error", "transport_error"): the smart collections, then
\* the custom collections, each kept on status 200 and skipped on another
\* status; an exception of either request is caught around both and []
\* is returned
get_collections_of(catalog, smart_response, custom_response) ==
    IF "transport_error" \in {smart_response, custom_response}
       THEN <<>>
       ELSE (IF smart_response = "ok" THEN catalog.smart ELSE <<>>)
            \o (IF custom_response = "ok" THEN catalog.custom ELSE <<>>)

\* ShopifyService.get_collections: smart then custom collections, each kept
\* on status 200 and skipped otherwise; [] when a request raises
get_collections(catalog) ==
    {get_collections_of(catalog, smart_response, custom_response) :
        smart_response \in Responses, custom_response \in Responses}

\* the mutant of NewItems: the existence query is left out
NewItemsUnchecked(listing, table) == listing

\* the scan loop over a listing: an id with no committed row gets a new row
\* added to the session (autoflush is off: rows added earlier in the same
\* scan are not seen by the existence query)
NewItems(listing, table) ==
    LET known == ShopifyIds(table)
    IN  SelectSeq(listing, LAMBDA id : id \notin known)

\* the mutant of UpdateSystemState: the flags are not part of the commit
\* that inserts the rows
UpdateSystemStateUnflagged(state, new_products, new_collections) ==
    [state EXCEPT
        !.last_scan = @ + 1,
        !.products_found_in_last_scan = new_products,
        !.collections_found_in_last_scan = new_collections]

\* the mutant of UpdateSystemState: the flags are assigned the outcome of
\* the safety check, whatever it is
UpdateSystemStateAssigns(state, new_products, new_collections) ==
    [state EXCEPT
        !.last_scan = @ + 1,
        !.products_found_in_last_scan = new_products,
        !.collections_found_in_last_scan = new_collections,
        !.is_paused = @ \/ SafetyCheck(new_products + new_collections),
        !.auto_pause_triggered = SafetyCheck(new_products + new_collections)]

\* scan_all, "Update system state" and "Safety check": last_scan and the
\* counts of new rows are assigned; more than 100 new rows set is_paused
\* and auto_pause_triggered
UpdateSystemState(state, new_products, new_collections) ==
    LET scanned ==
           [state EXCEPT
               !.last_scan = @ + 1,
               !.products_found_in_last_scan = new_products,
               !.collections_found_in_last_scan = new_collections]
    IN  IF SafetyCheck(new_products + new_collections)
           THEN [scanned EXCEPT !.is_paused = TRUE,
                                !.auto_pause_triggered = TRUE]
           ELSE scanned

\* the mutant of auto_trigger: the pause flag is not read
auto_trigger_unpaused_ignored(state, total_new) == total_new > 0

\* scan_all, "Auto-trigger GEO processing", with the system state row as it
\* is after the commit: if not state.is_paused and total_new > 0
auto_trigger(state, total_new) == ~state.is_paused /\ total_new > 0

\* the mutant of IntegrityError: shopify_id without unique=True
IntegrityErrorUnchecked(new, table) == FALSE

\* db.commit() with the rows of the ids new added to the session:
\* shopify_id is unique=True, so the flush raises IntegrityError when two of
\* the new rows share an id or one of them has the id of a committed row
IntegrityError(new, table) ==
    \/ HasDuplicate(new)
    \/ \E i \in DOMAIN new : new[i] \in ShopifyIds(table)

IdleScan == [pc |-> "idle", new_products |-> <<>>, title |-> 0]

IdleProc ==
    [pc |-> "idle", pending_products |-> <<>>, pending_collections |-> <<>>,
     total_processed |-> 0, seo_record |-> FALSE, shopify_updated |-> FALSE]

\* scheduler.py: the worker before its first cycle
IdleWorker ==
    [pc |-> "sleep", cycles |-> 0, slot |-> 0, dashboard_data |-> <<>>]

Init ==
    /\ products = EmptyTable
    /\ collections = EmptyTable
    /\ seo_content = EmptyBag
    /\ system_state = <<>>
    /\ shop = 1
    /\ scan = [s \in Scans |-> IdleScan]
    /\ proc = [p \in Procs |-> IdleProc]
    /\ scheduled = 0
    /\ running = 0
    /\ count = [scans |-> 0, triggers |-> 0, runs |-> 0, restarts |-> 0]
    /\ writeback = {}
    /\ worker = IdleWorker
    /\ client = <<>>

\* ---------------------------------------------------------------- scan_all
\* POST /api/scan up to the first await: the pause check, then the request
\* for the products
scan_all_request(s) ==
    /\ running = 0
    /\ scan[s].pc = "idle"
    /\ \A r \in Scans : r < s => scan[r].pc # "idle"
    /\ count.scans < MaxScans
    /\ count' = [count EXCEPT !.scans = @ + 1]
    /\ system_state' = init_system_state(system_state)
    /\ IF scan_paused(system_state'[1])
          THEN UNCHANGED scan
          ELSE scan' = [scan EXCEPT ![s].pc = "get_products"]
    /\ UNCHANGED <<products, collections, seo_content, shop, proc, scheduled,
                   running, writeback>>

\* POST /api/scan from any other client than the worker
scan_all_enter(s) ==
    /\ scan_all_request(s)
    /\ UNCHANGED <<worker, client>>

\* get_products has returned: the loop over the products, then the request
\* for the collections
scan_all_products(s) ==
    /\ running = 0
    /\ scan[s].pc = "get_products"
    /\ \E listing \in get_products(Catalog(shop)) :
          scan' = [scan EXCEPT ![s] =
                      [pc |-> "get_collections",
                       new_products |-> NewItems(listing, products),
                       title |-> IF NewItems(listing, products) = <<>>
                                    THEN 0 ELSE Title(shop)]]
    /\ UNCHANGED <<products, collections, seo_content, system_state, shop,
                   proc, scheduled, running, writeback, count>>
    /\ UNCHANGED <<worker, client>>

\* get_collections has returned: the loop over the collections, the system
\* state, the safety check, the commit and the auto-trigger.  A commit that
\* violates unique(shopify_id) raises: the transaction is rolled back and
\* the request ends with status 500.
scan_all_finish(s) ==
    /\ running = 0
    /\ scan[s].pc = "get_collections"
    /\ \E listing \in get_collections(Catalog(shop)) :
          LET new_products == scan[s].new_products
              new_collections == NewItems(listing, collections)
              total_new == Len(new_products) + Len(new_collections)
              state == init_system_state(system_state)[1]
              integrity_error ==
                  \/ IntegrityError(new_products, products)
                  \/ IntegrityError(new_collections, collections)
              committed ==
                  UpdateSystemState(state, Len(new_products),
                                    Len(new_collections))
          IN  IF integrity_error
                 THEN UNCHANGED <<products, collections, system_state,
                                  scheduled>>
                 ELSE /\ products' =
                            Insert(products, new_products, scan[s].title)
                      /\ collections' =
                            Insert(collections, new_collections, Title(shop))
                      /\ system_state' = <<committed>>
                      /\ scheduled' =
                            IF auto_trigger(committed, total_new)
                               THEN scheduled + 1 ELSE scheduled
    /\ scan' = [scan EXCEPT ![s] = IdleScan]
    /\ UNCHANGED <<seo_content, shop, proc, running, writeback, count>>
    /\ UNCHANGED <<worker, client>>

\* --------------------------------------------------- process_pending_items
\* the item the task is working on: the head of the products it selected,
\* then the head of the collections it selected
OnProduct(pr) == pr.pending_products # <<>>

CurrentRow(pr) ==
    IF OnProduct(pr) THEN Head(pr.pending_products)
                     ELSE Head(pr.pending_collections)

\* attribute assignments on a row object: the columns named are written,
\* the others keep their value
Assign(row, changes) ==
    [column \in DOMAIN row |->
        IF column \in DOMAIN changes THEN changes[column] ELSE row[column]]

\* the assignments to the item of the loop, flushed by the db.commit() that
\* follows them
SetRow(pr, changes) ==
    LET k == CurrentRow(pr) IN
    IF OnProduct(pr)
       THEN /\ products' =
                  Update(products, k, Assign(Row(products, k), changes))
            /\ UNCHANGED collections
       ELSE /\ collections' =
                  Update(collections, k, Assign(Row(collections, k), changes))
            /\ UNCHANGED products

AuditRow(pr) ==
    IF OnProduct(pr)
       THEN [item_id |-> products.ids[CurrentRow(pr)],
             item_type |-> "product"]
       ELSE [item_id |-> collections.ids[CurrentRow(pr)],
             item_type |-> "collection"]

\* db.add(seo_record) followed by a commit
AddRow(table, row) == table (+) SetToBag({row})

NextItem(pr) ==
    IF OnProduct(pr)
       THEN [pr EXCEPT !.pending_products = Tail(@)]
       ELSE [pr EXCEPT !.pending_collections = Tail(@)]

\* the mutant of Continue: the next selected item is not marked processing
\* before the calls for it
ContinueUnmarked(p, pr, table) ==
    IF pr.pending_products # <<>> \/ pr.pending_collections # <<>>
       THEN /\ proc' = [proc EXCEPT ![p] =
                          [pr EXCEPT !.pc = "generate", !.seo_record = FALSE,
                                     !.shopify_updated = FALSE]]
            /\ running' = p
            /\ system_state' = table
            /\ UNCHANGED <<products, collections>>
       ELSE /\ system_state' =
                  <<[table[1] EXCEPT
                        !.total_items_processed = @ + pr.total_processed]>>
            /\ proc' = [proc EXCEPT ![p] = IdleProc]
            /\ running' = 0
            /\ UNCHANGED <<products, collections>>

\* the top of the two for loops with the task's record pr and the system
\* state table: mark the next selected item processing and commit; after the
\* last item, add total_processed to the system stats and commit
Continue(p, pr, table) ==
    IF pr.pending_products # <<>> \/ pr.pending_collections # <<>>
       THEN /\ SetRow(pr, [status |-> "processing"])
            /\ proc' = [proc EXCEPT ![p] =
                          [pr EXCEPT !.pc = "generate", !.seo_record = FALSE,
                                     !.shopify_updated = FALSE]]
            /\ running' = p
            /\ system_state' = table
       ELSE /\ system_state' =
                  <<[table[1] EXCEPT
                        !.total_items_processed = @ + pr.total_processed]>>
            /\ proc' = [proc EXCEPT ![p] = IdleProc]
            /\ running' = 0
            /\ UNCHANGED <<products, collections>>

\* the mutant of Fail: the exception leaves the loop and ends the task
FailAborts(p) ==
    /\ SetRow(proc[p], [status |-> "failed"])
    /\ UNCHANGED seo_content
    /\ proc' = [proc EXCEPT ![p] = IdleProc]
    /\ running' = 0

\* the except branch: the item is failed and the session committed, with
\* the audit row when one was already added to the session; then the sleep
Fail(p) ==
    LET pr == proc[p] IN
    /\ SetRow(pr, [status |-> "failed"])
    /\ seo_content' = IF pr.seo_record THEN AddRow(seo_content, AuditRow(pr))
                                       ELSE seo_content
    /\ proc' = [proc EXCEPT ![p] =
                  [NextItem(pr) EXCEPT !.pc = "sleep", !.seo_record = FALSE]]
    /\ running' = 0

\* the mutant of Complete: the next item follows without the sleep
CompleteUndelayed(p, updated) ==
    LET pr == proc[p] IN
    /\ SetRow(pr, [status |-> "completed", seo_written |-> TRUE,
                   processed_at |-> TRUE])
    /\ seo_content' = AddRow(seo_content, AuditRow(pr))
    /\ proc' = [proc EXCEPT ![p] =
                  [NextItem(pr) EXCEPT
                      !.pc = IF NextItem(pr).pending_products = <<>>
                                /\ NextItem(pr).pending_collections = <<>>
                                THEN "sleep" ELSE "generate",
                      !.seo_record = FALSE,
                      !.shopify_updated = updated,
                      !.total_processed = @ + 1]]
    /\ running' = 0

\* "Mark as completed": the item is completed whatever update_product
\* returned, the audit row is committed with it; then the sleep
Complete(p, updated) ==
    LET pr == proc[p] IN
    /\ SetRow(pr, [status |-> "completed", seo_written |-> TRUE,
                   processed_at |-> TRUE])
    /\ seo_content' = AddRow(seo_content, AuditRow(pr))
    /\ proc' = [proc EXCEPT ![p] =
                  [NextItem(pr) EXCEPT !.pc = "sleep",
                                       !.seo_record = FALSE,
                                       !.shopify_updated = updated,
                                       !.total_processed = @ + 1]]
    /\ running' = 0

\* the background task starts: the pause check, the selection of the
\* pending rows and the first pass through the top of the loop
process_begin(p) ==
    /\ running = 0
    /\ proc[p].pc = "idle"
    /\ \A q \in Procs : q < p => proc[q].pc # "idle"
    /\ scheduled > 0
    /\ scheduled' = scheduled - 1
    /\ LET table == init_system_state(system_state) IN
       IF process_paused(table[1])
          THEN /\ system_state' = table
               /\ UNCHANGED <<products, collections, proc, running>>
          ELSE Continue(p, [IdleProc EXCEPT
                  !.pending_products = PendingRows(products, ProductBatch),
                  !.pending_collections =
                        PendingRows(collections, CollectionBatch)], table)
    /\ UNCHANGED <<seo_content, shop, scan, writeback>>
    /\ UNCHANGED <<worker, client>>

\* a background task starts, one of the MaxRuns tasks of a behaviour
process_start(p) ==
    /\ count.runs < MaxRuns
    /\ count' = [count EXCEPT !.runs = @ + 1]
    /\ process_begin(p)

\* a background task starts, any number of times in a behaviour
process_again(p) ==
    /\ process_begin(p)
    /\ UNCHANGED count

\* what generate_geo_content returns: a content object with ai_description
\* ("full"), one whose faq_content makes update_product raise while it
\* builds the request ("badfaq"), one without ai_description ("nodesc"),
\* or {} on any error ("empty")
Contents == {"full", "badfaq", "nodesc", "empty"}

\* what the chat completion request gives generate_geo_content: the text of
\* a JSON object of one of the three kinds, a text json.loads cannot parse
\* ("unparsable"), or an exception ("error")
Replies == {"full", "badfaq", "nodesc", "unparsable", "error"}

\* GEOAIService.generate_geo_content: the parsed object; an exception of
\* the request or of json.loads is caught and {} is returned
generate_geo_content(reply) ==
    IF reply \in {"unparsable", "error"} THEN "empty" ELSE reply

\* the try block up to its first await that suspends, for the keywords
\* research_geo_keywords returns (a list, or [] on any error: keywords is
\* FALSE) and the reply to generate_geo_content's request: the audit row is
\* added to the session and, for a product whose content has an
\* ai_description, update_product is called
process_item(p, keywords, reply) ==
    LET content == generate_geo_content(reply) IN
    CASE ~keywords \/ content = "empty" ->
            Fail(p)
      [] keywords /\ content = "full" /\ OnProduct(proc[p]) ->
            /\ proc' = [proc EXCEPT ![p].pc = "update",
                                    ![p].seo_record = TRUE]
            /\ running' = 0
            /\ UNCHANGED <<products, collections, seo_content>>
      [] keywords /\ content = "badfaq" /\ OnProduct(proc[p]) ->
            /\ SetRow(proc[p], [status |-> "failed"])
            /\ seo_content' = AddRow(seo_content, AuditRow(proc[p]))
            /\ proc' = [proc EXCEPT ![p] =
                          [NextItem(proc[p]) EXCEPT !.pc = "sleep"]]
            /\ running' = 0
      [] OTHER ->
            Complete(p, FALSE)

process_generate(p) ==
    /\ running = p
    /\ proc[p].pc = "generate"
    /\ \E keywords \in BOOLEAN, reply \in Replies :
          process_item(p, keywords, reply)
    /\ UNCHANGED <<system_state, shop, scan, scheduled, writeback, count>>
    /\ UNCHANGED <<worker, client>>

\* the try block for a content object without ai_description whose audit
\* row the database cannot store (a value of the reply has the wrong type
\* for its column): the commit that flushes it raises and the session is
\* rolled back, so the item's row stays processing.  For a product the
\* commit is the one of log_api_action, which catches the exception, and
\* the loop goes on; for a collection it is the commit after the try block,
\* and the exception ends the task.
process_unflushable(p) ==
    /\ running = p
    /\ proc[p].pc = "generate"
    /\ proc' = [proc EXCEPT ![p] =
                  IF OnProduct(proc[p])
                     THEN [NextItem(proc[p]) EXCEPT
                              !.pc = "sleep", !.total_processed = @ + 1]
                     ELSE IdleProc]
    /\ running' = 0
    /\ UNCHANGED <<products, collections, seo_content, system_state, shop,
                   scan, scheduled, writeback, count>>
    /\ UNCHANGED <<worker, client>>

\* update_product has returned True (status 200) or False
process_update(p) ==
    /\ running = 0
    /\ proc[p].pc = "update"
    /\ \E updated \in BOOLEAN :
          /\ Complete(p, updated)
          /\ writeback' =
                IF updated
                   THEN writeback \cup {AuditRow(proc[p])}
                   ELSE writeback
    /\ UNCHANGED <<system_state, shop, scan, scheduled, count>>
    /\ UNCHANGED <<worker, client>>

\* asyncio.sleep(8) is over: the next pass through the top of the loop
process_wake(p) ==
    /\ running = 0
    /\ proc[p].pc = "sleep"
    /\ Continue(p, proc[p], system_state)
    /\ UNCHANGED <<seo_content, shop, scan, scheduled, writeback, count>>
    /\ UNCHANGED <<worker, client>>

\* --------------------------------------------------------- other handlers
\* POST /api/process-pending
trigger_processing_request ==
    /\ running = 0
    /\ count.triggers < MaxTriggers
    /\ count' = [count EXCEPT !.triggers = @ + 1]
    /\ scheduled' = scheduled + 1
    /\ UNCHANGED <<products, collections, seo_content, system_state, shop,
                   scan, proc, running, writeback>>

\* POST /api/process-pending from any other client than the worker
trigger_processing ==
    /\ trigger_processing_request
    /\ UNCHANGED <<worker, client>>

\* POST /api/process-pending whenever no task is waiting to start, any
\* number of times in a behaviour
trigger_processing_again ==
    /\ running = 0
    /\ scheduled = 0
    /\ scheduled' = 1
    /\ UNCHANGED <<products, collections, seo_content, system_state, shop,
                   scan, proc, running, writeback, count>>
    /\ UNCHANGED <<worker, client>>

\* the mutant of toggle_pause: auto_pause_triggered is left as it is
toggle_pause_keeps_flag ==
    /\ running = 0
    /\ system_state' =
          <<[init_system_state(system_state)[1] EXCEPT !.is_paused = ~@]>>
    /\ UNCHANGED <<products, collections, seo_content, shop, scan, proc,
                   scheduled, running, count,
                   writeback>>
    /\ UNCHANGED <<worker, client>>

\* POST /api/pause
toggle_pause ==
    /\ running = 0
    /\ system_state' =
          <<[init_system_state(system_state)[1] EXCEPT
                !.is_paused = ~@, !.auto_pause_triggered = FALSE]>>
    /\ UNCHANGED <<products, collections, seo_content, shop, scan, proc,
                   scheduled, running, count,
                   writeback>>
    /\ UNCHANGED <<worker, client>>

\* GET /api/dashboard: reads only, but creates the system state row when
\* there is none
get_dashboard_request ==
    /\ running = 0
    /\ system_state' = init_system_state(system_state)
    /\ UNCHANGED <<products, collections, seo_content, shop, scan, proc,
                   scheduled, running, writeback, count>>

\* GET /api/dashboard from any other client than the worker
get_dashboard ==
    /\ get_dashboard_request
    /\ UNCHANGED <<worker, client>>

\* the provider's catalog grows
ShopChange ==
    /\ shop < Len(Catalogs)
    /\ shop' = shop + 1
    /\ UNCHANGED <<products, collections, seo_content, system_state, scan,
                   proc, scheduled, running, writeback, count>>
    /\ UNCHANGED <<worker, client>>

\* the backend process is stopped and started again: every request and task
\* in flight is lost, and the module's start-up code drops and recreates
\* every table
Restart ==
    /\ count.restarts < MaxRestarts
    /\ count' = [count EXCEPT !.restarts = @ + 1]
    /\ products' = EmptyTable
    /\ collections' = EmptyTable
    /\ seo_content' = EmptyBag
    /\ system_state' = <<>>
    /\ scan' = [s \in Scans |-> IdleScan]
    /\ proc' = [p \in Procs |-> IdleProc]
    /\ scheduled' = 0
    /\ running' = 0
    /\ UNCHANGED <<shop, writeback>>
    /\ UNCHANGED <<worker, client>>

\* ------------------------------------------------------------ scheduler.py
\* the routes of the backend app
Routes ==
    {<<"GET", "/">>, <<"GET", "/api/health">>, <<"GET", "/api/dashboard">>,
     <<"POST", "/api/scan">>, <<"POST", "/api/process-pending">>,
     <<"POST", "/api/pause">>, <<"GET", "/api/logs">>,
     <<"POST", "/api/manual-queue">>, <<"GET", "/api/manual-queue">>,
     <<"DELETE", "/api/manual-queue/{item_id}">>,
     <<"POST", "/api/generate-content">>}

\* get_dashboard, stats.products.pending + stats.collections.pending as the
\* worker adds them up
PendingCount ==
    Cardinality({k \in Keys(products) : Row(products, k).status = "pending"})
    + Cardinality({k \in Keys(collections) :
                      Row(collections, k).status = "pending"})

\* call_api returns None: the request failed in transport or the response
\* had a 4xx or 5xx status; nothing changes in the backend
call_api_none ==
    UNCHANGED <<products, collections, seo_content, system_state, shop, scan,
                proc, scheduled, running, writeback, count>>

\* main_loop: the sleep is over, the next cycle starts and run_once requests
\* the dashboard
worker_cycle ==
    /\ worker.pc = "sleep"
    /\ worker.cycles < MaxCycles
    /\ worker' = [worker EXCEPT !.pc = "dashboard", !.cycles = @ + 1,
                                !.dashboard_data = <<>>]
    /\ call_api_none
    /\ UNCHANGED client

\* the mutant of run_once_step1: is_paused is not read
run_once_step1_pause_unread(dashboard_data) ==
    IF dashboard_data = <<>> THEN "sleep"
    ELSE IF dashboard_data[1].pending_count < SCAN_WHEN_PENDING_LT THEN "scan"
    ELSE "final"

\* run_once, step 1, what follows the first dashboard read: no dashboard
\* data (<<>> stands for None) or a paused system end the cycle; otherwise
\* the scan is requested when the queue is low
run_once_step1(dashboard_data) ==
    IF dashboard_data = <<>> THEN "sleep"
    ELSE IF dashboard_data[1].is_paused THEN "sleep"
    ELSE IF dashboard_data[1].pending_count < SCAN_WHEN_PENDING_LT THEN "scan"
    ELSE "final"

\* run_once, step 1: dashboard_data = await call_api("GET", "/api/dashboard")
worker_dashboard ==
    /\ worker.pc = "dashboard"
    /\ \/ /\ call_api_none
          /\ worker' = [worker EXCEPT !.dashboard_data = <<>>,
                                      !.pc = run_once_step1(<<>>)]
       \/ /\ get_dashboard_request
          /\ LET data == <<[is_paused |-> system_state'[1].is_paused,
                            pending_count |-> PendingCount]>>
             IN worker' = [worker EXCEPT !.dashboard_data = data,
                                         !.pc = run_once_step1(data)]
    /\ UNCHANGED client

\* run_once, step 2: POST /api/scan; the worker waits for the response of
\* the scan_all request it has started
worker_scan ==
    /\ worker.pc = "scan"
    /\ \/ /\ call_api_none
          /\ worker' = [worker EXCEPT !.pc = "recheck"]
       \/ \E s \in Scans :
             /\ scan_all_request(s)
             /\ worker' = [worker EXCEPT !.pc = "scanning", !.slot = s]
    /\ UNCHANGED client

\* the response to POST /api/scan: the request has ended
worker_scanned ==
    /\ worker.pc = "scanning"
    /\ scan[worker.slot].pc = "idle"
    /\ worker' = [worker EXCEPT !.pc = "recheck", !.slot = 0]
    /\ call_api_none
    /\ UNCHANGED client

\* run_once, the re-check after the scan: dashboard data that shows a
\* paused system ends the cycle; no data does not
worker_recheck ==
    /\ worker.pc = "recheck"
    /\ \/ /\ call_api_none
          /\ worker' = [worker EXCEPT !.pc = "final"]
       \/ /\ get_dashboard_request
          /\ worker' = [worker EXCEPT !.pc =
                IF system_state'[1].is_paused THEN "sleep" ELSE "final"]
    /\ UNCHANGED client

\* run_once, step 3: the dashboard is fetched again and read without a
\* check for None: dashboard_data_after_scan.get raises AttributeError,
\* run_once and main_loop end with it
worker_final ==
    /\ worker.pc = "final"
    /\ \/ /\ call_api_none
          /\ worker' = [worker EXCEPT !.pc = "dead"]
       \/ /\ get_dashboard_request
          /\ worker' = [worker EXCEPT !.pc =
                IF PendingCount > 0 THEN "process" ELSE "sleep"]
    /\ UNCHANGED client

\* the path of the worker's processing request
ProcessPath == "/api/process-queue"

\* run_once, POST /api/process-queue: a route of the app runs its handler,
\* any other path is answered 404 and call_api returns None
worker_process ==
    /\ worker.pc = "process"
    /\ worker' = [worker EXCEPT !.pc = "sleep"]
    /\ IF <<"POST", ProcessPath>> \in Routes
          THEN trigger_processing_request \/ call_api_none
          ELSE call_api_none
    /\ UNCHANGED client

\* ------------------------------------------------------ shopify_service.py
\* main.py, class ShopifyService (get_products, get_collections,
\* update_product): the request is made in a try block whose except branch
\* returns [] or False
main_ShopifyService(op, response) ==
    IF response = "ok" THEN "value" ELSE "empty"

\* shopify_service.py, class ShopifyService (get_products, get_product,
\* update_product, get_products_count): the status is compared with 200;
\* an exception of the request is not caught
shopify_service_ShopifyService(op, response) ==
    CASE response = "ok" -> "value"
      [] response = "status_error" -> "empty"
      [] response = "transport_error" -> "raise"

ClientOperations ==
    [main |-> {"get_products", "get_collections", "update_product"},
     shopify_service |-> {"get_products", "get_product", "update_product",
                          "get_products_count"}]

\* a call of a catalog client operation and what the caller gets
client_call ==
    /\ Len(client) < MaxCalls
    /\ \E impl \in DOMAIN ClientOperations :
       \E op \in ClientOperations[impl], response \in Responses :
          client' = Append(client,
             [impl |-> impl, op |-> op, response |-> response,
              result |-> IF impl = "main"
                            THEN main_ShopifyService(op, response)
                            ELSE shopify_service_ShopifyService(op,
                                                                response)])
    /\ call_api_none
    /\ UNCHANGED worker

\* the fields of a content object that update_product reads; seo_data is
\* the set of the fields the caller supplied with a value
ContentFields ==
    {"ai_description", "seo_title", "faq_content", "schema_markup"}

\* main.py, ShopifyService.update_product, the body of the PUT request:
\* each field with the content fields its value is built from ({} is the
\* empty string).  body_html is the ai_description or "", with the FAQ
\* section and the schema comment when supplied; the metafield is constant
main_update_data(seo_data) ==
    [body_html |->
        seo_data \cap {"ai_description", "faq_content", "schema_markup"},
     metafields |-> {"geo_optimized"}]

\* shopify_service.py, ShopifyService.update_product, the body of the PUT
\* request: body_html is seo_data.get("ai_description", ""), title is sent
\* when seo_title is supplied
shopify_service_update_data(seo_data) ==
    IF "seo_title" \in seo_data
       THEN [body_html |-> seo_data \cap {"ai_description"},
             title |-> {"seo_title"}]
       ELSE [body_html |-> seo_data \cap {"ai_description"}]

\* the product as the provider holds it before the request
ProviderProduct ==
    [body_html |-> {"original"}, title |-> {"original"},
     metafields |-> {"original"}]

\* PUT /products/{id}.json at the provider: the fields of the request body
\* are written, the others are left as they are
ProviderPut(product, update_data) ==
    [field \in DOMAIN product |->
        IF field \in DOMAIN update_data THEN update_data[field]
                                        ELSE product[field]]

\* a call of update_product with a content object, the request it sends and
\* the product the provider holds after it
update_product_call ==
    /\ Len(client) < MaxCalls
    /\ \E impl \in DOMAIN ClientOperations :
       \E seo_data \in SUBSET ContentFields, response \in Responses :
          LET update_data ==
                 IF impl = "main" THEN main_update_data(seo_data)
                                  ELSE shopify_service_update_data(seo_data)
          IN  client' = Append(client,
                 [impl |-> impl, op |-> "update_product",
                  response |-> response,
                  result |-> IF impl = "main"
                                THEN main_ShopifyService("update_product",
                                                         response)
                                ELSE shopify_service_ShopifyService(
                                        "update_product", response),
                  seo_data |-> seo_data,
                  update_data |-> update_data,
                  product |-> IF response = "ok"
                                 THEN ProviderPut(ProviderProduct, update_data)
                                 ELSE ProviderProduct])
    /\ call_api_none
    /\ UNCHANGED worker

\* a call of get_collections against one of the catalogs, the responses to
\* its two requests and the listing the caller gets
get_collections_call ==
    /\ Len(client) < MaxCalls
    /\ \E i \in DOMAIN Catalogs :
       \E smart_response \in Responses, custom_response \in Responses :
          client' = Append(client,
             [impl |-> "main", op |-> "get_collections", catalog |-> i,
              smart_response |-> smart_response,
              custom_response |-> custom_response,
              result |-> get_collections_of(Catalogs[i], smart_response,
                                            custom_response)])
    /\ call_api_none
    /\ UNCHANGED worker

Next ==
    \/ \E s \in Scans : scan_all_enter(s)
    \/ \E s \in Scans : scan_all_products(s)
    \/ \E s \in Scans : scan_all_finish(s)
    \/ \E p \in Procs : process_start(p)
    \/ \E p \in Procs : process_generate(p)
    \/ \E p \in Procs : process_update(p)
    \/ \E p \in Procs : process_wake(p)
    \/ trigger_processing
    \/ toggle_pause
    \/ get_dashboard
    \/ ShopChange

Spec == Init /\ [][Next]_vars

\* the behaviours with restarts, explored up to MaxRunsRestart tasks
NextRestart ==
    \/ Next /\ count'.runs <= MaxRunsRestart
    \/ Restart

SpecRestart == Init /\ [][NextRestart]_vars

\* the backend of a shop whose catalog has more products than one page,
\* explored up to MaxScansPages scans
InitPages ==
    /\ products = EmptyTable
    /\ collections = EmptyTable
    /\ seo_content = EmptyBag
    /\ system_state = <<>>
    /\ shop = Len(Catalogs) + 1
    /\ scan = [s \in Scans |-> IdleScan]
    /\ proc = [p \in Procs |-> IdleProc]
    /\ scheduled = 0
    /\ running = 0
    /\ count = [scans |-> 0, triggers |-> 0, runs |-> 0, restarts |-> 0]
    /\ writeback = {}
    /\ worker = IdleWorker
    /\ client = <<>>

NextPages == Next /\ count'.scans <= MaxScansPages

SpecPages == InitPages /\ [][NextPages]_vars

\* the backend with the worker of scheduler.py as its only client for scans
\* and processing requests, explored up to MaxRunsWorker tasks
NextBackend ==
    /\ Next
    /\ count'.scans = count.scans
    /\ count'.triggers = count.triggers
    /\ count'.runs <= MaxRunsWorker

NextWorker ==
    \/ NextBackend
    \/ worker_cycle
    \/ worker_dashboard
    \/ worker_scan
    \/ worker_scanned
    \/ worker_recheck
    \/ worker_final
    \/ worker_process

SpecWorker == Init /\ [][NextWorker]_vars

\* the catalog client operations called with every response
SpecClient == Init /\ [][client_call]_vars

\* the backend with generator replies whose audit row cannot be stored,
\* explored up to MaxScansStuck scans
NextStuck ==
    \/ Next /\ count'.scans <= MaxScansStuck
    \/ \E p \in Procs : process_unflushable(p)

SpecStuck == Init /\ [][NextStuck]_vars

\* the backend of a shop whose catalog stays small, never paused, with
\* process_pending_items invoked without end
NextProgress ==
    \/ \E s \in Scans : scan_all_enter(s) /\ count'.scans <= MaxScansProgress
    \/ \E s \in Scans : scan_all_products(s)
    \/ \E s \in Scans : scan_all_finish(s)
    \/ trigger_processing_again
    \/ \E p \in Procs : process_again(p)
    \/ \E p \in Procs : process_generate(p)
    \/ \E p \in Procs : process_unflushable(p)
    \/ \E p \in Procs : process_update(p)
    \/ \E p \in Procs : process_wake(p)

\* the event loop runs every task that is ready, every awaited call
\* returns, and the processing request keeps coming
FairProgress ==
    /\ WF_vars(trigger_processing_again)
    /\ \A s \in Scans :
          WF_vars(scan_all_products(s)) /\ WF_vars(scan_all_finish(s))
    /\ \A p \in Procs :
          /\ WF_vars(process_again(p))
          /\ WF_vars(process_generate(p) \/ process_unflushable(p))
          /\ WF_vars(process_update(p))
          /\ WF_vars(process_wake(p))

SpecProgress == Init /\ [][NextProgress]_vars /\ FairProgress

\* get_collections called against every catalog with every pair of responses
SpecListing == Init /\ [][get_collections_call]_vars

\* update_product called with every content object and every response
SpecUpdate == Init /\ [][update_product_call]_vars

\* ------------------------------------------------------------------ claims
Paused(table) == table # <<>> /\ table[1].is_paused

AutoPaused(table) == table # <<>> /\ table[1].auto_pause_triggered

\* the rows a step has inserted
Inserted(old, new) == {k \in Keys(new) : k \notin Keys(old)}

\* the step in which the scan_all request of slot s ends after its listings
ScanEnds(s) == scan[s].pc = "get_collections" /\ scan'[s].pc = "idle"

\* the step in which a process_pending_items task starts
TaskStarts == count'.runs # count.runs

\* the step in which a scan_all request is received
ScanCalled == count'.scans # count.scans

StatusOf(table, k) == Row(table, k).status

\* the step in which row k of table goes from status from to status to
Moves(old, new, k, from, to) ==
    k \in Keys(old) /\ StatusOf(old, k) = from /\ StatusOf(new, k) = to

\* C1: a scan_all run that inserts more than 100 new products and
\* collections ends with is_paused and auto_pause_triggered true and with
\* every one of the new rows in the mirror with status pending; a run that
\* inserts 100 rows or fewer leaves both flags as they were.
C1_CircuitBreaker ==
    [][\A s \in Scans :
          ScanEnds(s) =>
             LET newp == Inserted(products, products')
                 newc == Inserted(collections, collections')
             IN  IF Cardinality(newp) + Cardinality(newc) > 100
                    THEN /\ Paused(system_state')
                         /\ AutoPaused(system_state')
                         /\ \A k \in newp : StatusOf(products', k) = "pending"
                         /\ \A k \in newc :
                               StatusOf(collections', k) = "pending"
                    ELSE /\ Paused(system_state') = Paused(system_state)
                         /\ AutoPaused(system_state') =
                               AutoPaused(system_state)]_vars

\* C1, witness: the scan that found more than 100 new items has committed
\* them and has tripped the auto-pause
C1_Tripped ==
    /\ Paused(system_state)
    /\ AutoPaused(system_state)
    /\ system_state[1].products_found_in_last_scan
          + system_state[1].collections_found_in_last_scan > 100
    /\ Len(products.ids) > 100
    /\ \A k \in Keys(products) :
          k > 2 => StatusOf(products, k) = "pending"

\* C2: while the auto-pause a scan has tripped has not been lifted by
\* toggle_pause, no product and no collection goes from pending to
\* processing.
C2_NoPickupAfterTrip ==
    [][AutoPaused(system_state) =>
          /\ \A k \in Keys(products) :
                ~Moves(products, products', k, "pending", "processing")
          /\ \A k \in Keys(collections) :
                ~Moves(collections, collections', k, "pending",
                       "processing")]_vars

\* C3: is_paused, once true, stays true in every step that is not a
\* toggle_pause request, a restart of the backend included; and a restart
\* keeps every row of the mirror, with its status.
C3_PersistedStateSurvives ==
    [][/\ (Paused(system_state) /\ ~Paused(system_state')) => toggle_pause
       /\ count'.restarts # count.restarts =>
             products' = products /\ collections' = collections]_vars

\* the item a task has marked processing and not yet completed or failed
Working(p) == proc[p].pc \in {"generate", "update"}

\* C4: no two process_pending_items tasks are at work on the same item.
C4_SingleWriterPerItem ==
    \A p, q \in Procs :
       (p # q /\ Working(p) /\ Working(q)) =>
          AuditRow(proc[p]) # AuditRow(proc[q])

\* the status the step gives the item the task p is at work on
StatusGiven(p) ==
    IF OnProduct(proc[p]) THEN StatusOf(products', CurrentRow(proc[p]))
                          ELSE StatusOf(collections', CurrentRow(proc[p]))

\* the step in which the task p ends its work on an item
ItemEnds(p) == Working(p) /\ proc'[p].pc = "sleep"

\* C5: the item a task ends its work on becomes completed when the
\* write-back of that task reported success, and failed otherwise.
C5_CompletedOnlyAfterWriteBack ==
    [][\A p \in Procs :
          ItemEnds(p) =>
             (StatusGiven(p) = "completed" <=> proc'[p].shopify_updated)]_vars

\* C6: every row of seo_content is for an item whose update_product call has
\* returned success.
C6_AuditAfterWriteBack ==
    \A row \in BagToSet(seo_content) : row \in writeback

\* the selection the claim describes: the first n rows that are pending or
\* failed
EligibleRows(table, n) ==
    Limit(SelectSeq([k \in 1..Len(table.ids) |-> k],
                    LAMBDA k : StatusOf(table, k) \in {"pending", "failed"}),
          n)

\* C7: a task that starts while the system is not paused selects the pending
\* and the failed rows alike.
C7_FailedEligible ==
    [][(TaskStarts /\ ~Paused(system_state)) =>
          \A p \in Procs :
             (proc[p].pc = "idle" /\ \A q \in Procs : q < p =>
                                        proc[q].pc # "idle") =>
                /\ proc'[p].pending_products =
                      EligibleRows(products, ProductBatch)
                /\ proc'[p].pending_collections =
                      EligibleRows(collections, CollectionBatch)]_vars

\* C8: no step of scan_all or process_pending_items changes the status of
\* a completed row.
C8_CompletedIsTerminal ==
    [][/\ \A k \in Keys(products) :
             StatusOf(products, k) = "completed" =>
                StatusOf(products', k) = "completed"
       /\ \A k \in Keys(collections) :
             StatusOf(collections, k) = "completed" =>
                StatusOf(collections', k) = "completed"]_vars

\* C9: a scan_all request received while is_paused is true sends no request
\* to the provider (no scan is left waiting for a listing), inserts no row,
\* leaves the system state row with its last_scan and found-counts as it
\* was, and schedules no task.
C9_ScanRefusedWhenPaused ==
    [][(ScanCalled /\ Paused(system_state)) =>
          /\ scan' = scan
          /\ products' = products
          /\ collections' = collections
          /\ system_state' = system_state
          /\ scheduled' = scheduled
          /\ proc' = proc]_vars

\* C9, witness: the one scan_all request received so far has ended without
\* a commit (last_scan is NULL) while is_paused was true
C9_Refused ==
    /\ count.scans = 1
    /\ \A s \in Scans : scan[s].pc = "idle"
    /\ Paused(system_state)
    /\ system_state[1].last_scan = 0
    /\ count.restarts = 0

\* C10: a process_pending_items task that starts while is_paused is true
\* changes no row of the mirror, no audit row and no system state column,
\* and makes no call to the generator or the provider (the task is over:
\* its slot stays idle).
C10_ProcessRefusedWhenPaused ==
    [][(TaskStarts /\ Paused(system_state)) =>
          /\ proc' = proc
          /\ products' = products
          /\ collections' = collections
          /\ seo_content' = seo_content
          /\ system_state' = system_state
          /\ writeback' = writeback
          /\ running' = running]_vars

\* C10, witness: the task the one scan scheduled for its new rows has
\* started and ended, the system is paused and no row was ever marked
C10_Refused ==
    /\ count.scans = 1
    /\ count.triggers = 1
    /\ count.runs = 2
    /\ count.restarts = 0
    /\ Paused(system_state)
    /\ \A p \in Procs : proc[p].pc = "idle"
    /\ Len(products.ids) > 0
    /\ products.upd = <<>>
    /\ collections.upd = <<>>

\* the ids of a sequence of ids
Range(s) == {s[i] : i \in DOMAIN s}

\* the mirror holds a row for every id the provider lists, as it does after
\* a scan that was given these listings and has committed
ProductsMirrored ==
    \A listing \in get_products(Catalog(shop)) :
       Range(listing) \subseteq ShopifyIds(products)

CollectionsMirrored ==
    \A listing \in get_collections(Catalog(shop)) :
       Range(listing) \subseteq ShopifyIds(collections)

\* the step in which the scan_all request of slot s loops over the products
ScanReadsProducts(s) ==
    scan[s].pc = "get_products" /\ scan'[s].pc = "get_collections"

\* C11: a scan_all run against a catalog the mirror already holds (a second
\* run in a row against an unchanged catalog) counts no product and no
\* collection as new, reports products_found = collections_found = 0 and
\* leaves the products and collections tables as they were.
C11_IdempotentDiscovery ==
    [][\A s \in Scans :
          /\ (ScanReadsProducts(s) /\ ProductsMirrored) =>
                scan'[s].new_products = <<>>
          /\ (ScanEnds(s) /\ scan[s].new_products = <<>>
                /\ CollectionsMirrored) =>
                /\ products' = products
                /\ collections' = collections
                /\ system_state'[1].last_scan = system_state[1].last_scan + 1
                /\ system_state'[1].products_found_in_last_scan = 0
                /\ system_state'[1].collections_found_in_last_scan = 0]_vars

\* C11, witness: two scans have committed against the first catalog, which
\* the mirror holds, and the later one found nothing new
C11_SecondScanFindsNothing ==
    /\ shop = 1
    /\ count.scans = 2
    /\ \A s \in Scans : scan[s].pc = "idle"
    /\ system_state # <<>>
    /\ system_state[1].last_scan = 2
    /\ system_state[1].products_found_in_last_scan = 0
    /\ system_state[1].collections_found_in_last_scan = 0
    /\ ProductsMirrored
    /\ Len(products.ids) = Len(Catalogs[1].products)

\* C12: no two rows of products and no two rows of collections share a
\* shopify_id, whatever scan_all requests overlap, and a row once inserted
\* stays: no step removes a row or changes its shopify_id, so no id is
\* inserted a second time.
C12_UniqueShopifyId ==
    [][/\ products'.ids # products.ids =>
             /\ Cardinality(ShopifyIds(products')) = Len(products'.ids)
             /\ SubSeq(products'.ids, 1, Len(products.ids)) = products.ids
       /\ collections'.ids # collections.ids =>
             /\ Cardinality(ShopifyIds(collections')) = Len(collections'.ids)
             /\ SubSeq(collections'.ids, 1, Len(collections.ids)) =
                   collections.ids]_vars

\* C12, witness: of two overlapping scan_all requests one has committed its
\* rows and the other is about to commit rows for the same ids
C12_OverlappingScans ==
    \E s \in Scans :
       /\ scan[s].pc = "get_collections"
       /\ scan[s].new_products # <<>>
       /\ Range(scan[s].new_products) \subseteq ShopifyIds(products)

\* C13: a scan_all run whose new products are not in the mirror yet ends
\* with a commit (last_scan is set), with one row for each of them and for
\* each new collection id, also when a listing holds the same id twice.
C13_DedupWithinScan ==
    [][\A s \in Scans :
          (/\ ScanEnds(s)
           /\ Range(scan[s].new_products) \cap ShopifyIds(products) = {}) =>
             /\ system_state'[1].last_scan = system_state[1].last_scan + 1
             /\ Range(scan[s].new_products) \subseteq ShopifyIds(products')
             /\ Cardinality(ShopifyIds(collections')) =
                   Len(collections'.ids)]_vars

\* the step in which the task p ends, its selection worked off or not
TaskEnds(p) == proc[p].pc # "idle" /\ proc'[p].pc = "idle"

\* the rows of the table other than row k are left as they are
OnlyRowChanges(old, new, k) ==
    /\ new.ids = old.ids
    /\ \A j \in (DOMAIN old.upd \cup DOMAIN new.upd) \ {k} :
          Row(new, j) = Row(old, j)

C15_FallbackContent ==
    [][\A p \in Procs :
          (/\ running = p
           /\ proc[p].pc = "generate"
           /\ process_item(p, TRUE, "unparsable")) =>
             StatusGiven(p) = "completed"]_vars

\* C20: auto_pause_triggered goes from false to true only in the step that
\* ends a scan_all run with more than 100 new rows, and from true to false
\* only in a toggle_pause request that takes is_paused from true to false.
C20_AutoPauseSetAndCleared ==
    [][/\ (~AutoPaused(system_state) /\ AutoPaused(system_state')) =>
             \E s \in Scans :
                /\ ScanEnds(s)
                /\ Cardinality(Inserted(products, products'))
                      + Cardinality(Inserted(collections, collections'))
                      > 100
       /\ (AutoPaused(system_state) /\ ~AutoPaused(system_state')) =>
             /\ toggle_pause
             /\ Paused(system_state)
             /\ ~Paused(system_state')]_vars

\* C20, witness: the last scan committed has tripped the auto-pause and a
\* toggle_pause request has lifted it since
C20_Unpaused ==
    /\ system_state # <<>>
    /\ system_state[1].products_found_in_last_scan
          + system_state[1].collections_found_in_last_scan > 100
    /\ ~Paused(system_state)
    /\ ~AutoPaused(system_state)

\* C16: a scan_all run that was given the products listing and has
\* committed leaves the mirror with a row for every product of the
\* provider's catalog, however many pages the catalog spans.
C16_PaginationComplete ==
    [][\A s \in Scans :
          (/\ ScanEnds(s)
           /\ scan[s].new_products # <<>>
           /\ system_state'[1].last_scan # system_state[1].last_scan) =>
             Range(Catalog(shop).products) \subseteq
                ShopifyIds(products')]_vars

\* C17: no catalog client operation raises to its caller: a response with
\* a status other than 200 and a transport error give the caller the empty
\* result ([], None or False).
C17_ClientNeverRaises ==
    \A i \in DOMAIN client :
       client[i].response # "ok" => client[i].result = "empty"

\* C18: the worker's loop is not ended by a failed API call.
C18_LoopSurvivesFailedCalls == worker.pc # "dead"

\* C19: the worker's processing request goes to a route of the backend and,
\* unless the request fails, adds a process_pending_items task.
C19_WorkerStartsProcessing ==
    [][(worker.pc = "process" /\ worker'.pc = "sleep") =>
          /\ <<"POST", ProcessPath>> \in Routes
          /\ scheduled' = scheduled + 1 \/ call_api_none]_vars

\* the rows the table held before the step are as they were: shopify_id,
\* title, status, seo_written and processed_at
RowsKept(old, new) ==
    /\ SubSeq(new.ids, 1, Len(old.ids)) = old.ids
    /\ SubSeq(new.titles, 1, Len(old.titles)) = old.titles
    /\ \A k \in DOMAIN old.upd \cup DOMAIN new.upd : Row(new, k) = Row(old, k)

\* a step of the scan_all request of slot s
ScanSteps(s) == scan'[s] # scan[s] \/ (ScanCalled /\ scan' = scan)

\* C30: no step of a scan_all request changes a row the mirror already
\* holds: its shopify_id, title, status, seo_written and processed_at stay
\* as they were, also when the provider reports another title for it.
C30_ScanKeepsKnownRows ==
    [][(\E s \in Scans : ScanSteps(s)) =>
          /\ RowsKept(products, products')
          /\ RowsKept(collections, collections')]_vars

\* C30, witness: a scan has inserted rows with the titles of the second
\* catalog while the mirror held the first product, which was completed
\* under the title of the first catalog and has kept title and status
C30_RenamedProductKept ==
    /\ Len(products.ids) > 2
    /\ products.titles[1] = Title(1)
    /\ products.titles[3] = Title(2)
    /\ StatusOf(products, 1) = "completed"
    /\ system_state[1].last_scan = 2

\* C21: every scan_all run that was not refused for pause ends with
\* last_scan set anew and with products_found_in_last_scan and
\* collections_found_in_last_scan equal to the numbers of products and
\* collections this run found new, whether or not the auto-pause trips.
C21_ScanRecordsItsCounts ==
    [][\A s \in Scans :
          ScanEnds(s) =>
             /\ system_state'[1].last_scan = system_state[1].last_scan + 1
             /\ system_state'[1].products_found_in_last_scan =
                   Len(scan[s].new_products)
             /\ \E listing \in get_collections(Catalog(shop)) :
                   system_state'[1].collections_found_in_last_scan =
                      Len(NewItems(listing, collections))]_vars

\* the item of row k of the products table and of the collections table,
\* as the audit rows and the write-backs name it
ProductItem(k) == [item_id |-> products.ids[k], item_type |-> "product"]

CollectionItem(k) ==
    [item_id |-> collections.ids[k], item_type |-> "collection"]

\* C22: seo_written is true only for a product or collection for which an
\* update_product call has returned success.
C22_SeoWrittenAfterWriteBack ==
    /\ \A k \in Keys(products) :
          Row(products, k).seo_written => ProductItem(k) \in writeback
    /\ \A k \in Keys(collections) :
          Row(collections, k).seo_written => CollectionItem(k) \in writeback

\* C23: processed_at is set for exactly the rows whose status is completed.
C23_ProcessedAtIffCompleted ==
    /\ \A k \in Keys(products) :
          Row(products, k).processed_at <=>
             StatusOf(products, k) = "completed"
    /\ \A k \in Keys(collections) :
          Row(collections, k).processed_at <=>
             StatusOf(collections, k) = "completed"

Statuses == {"pending", "processing", "completed", "failed"}

\* the status changes of the item life cycle
Arcs ==
    {<<"pending", "processing">>, <<"processing", "completed">>,
     <<"processing", "failed">>, <<"failed", "processing">>}

\* the step leaves every row of the table with one of the four statuses and
\* changes the status of a row along an arc only
StatusStep(old, new) ==
    /\ \A k \in DOMAIN new.upd : StatusOf(new, k) \in Statuses
    /\ \A k \in DOMAIN old.upd \cup (DOMAIN new.upd \cap Keys(old)) :
          \/ StatusOf(new, k) = StatusOf(old, k)
          \/ <<StatusOf(old, k), StatusOf(new, k)>> \in Arcs

\* C24: the status of every row is one of pending, processing, completed,
\* failed, and every step changes the status of a row along one of the arcs
\* pending -> processing, processing -> completed, processing -> failed,
\* failed -> processing.
C24_StatusArcs ==
    [][/\ StatusStep(products, products')
       /\ StatusStep(collections, collections')]_vars

\* C25: an update_product call whose content object has no ai_description
\* sends no body_html and leaves the provider's body_html as it was; one
\* whose content object has no seo_title leaves the provider's title as it
\* was.
C25_PartialUpdate ==
    \A i \in DOMAIN client :
       /\ "ai_description" \notin client[i].seo_data =>
             /\ "body_html" \notin DOMAIN client[i].update_data
             /\ client[i].product.body_html = ProviderProduct.body_html
       /\ "seo_title" \notin client[i].seo_data =>
             client[i].product.title = ProviderProduct.title

\* C26: the system_state table never holds more than one row; every
\* dashboard, scan_all, toggle_pause and process_pending_items call leaves
\* it with exactly one; the row is created with is_paused false (a
\* toggle_pause call that creates it toggles it at once); and the row, once
\* created, stays.
C26_SingletonSystemState ==
    [][/\ Len(system_state') <= 1
       /\ (ScanCalled \/ TaskStarts \/ toggle_pause \/ get_dashboard) =>
             Len(system_state') = 1
       /\ (system_state = <<>> /\ system_state' # <<>>) =>
             \/ system_state'[1] = NewSystemState
             \/ /\ toggle_pause
                /\ system_state'[1] =
                      [NewSystemState EXCEPT !.is_paused = TRUE]
       /\ system_state # <<>> => system_state' # <<>>]_vars

\* C26, witness: scans, tasks and a toggle_pause call have all used the
\* system state (the pause that is on was not set by a scan), and there is
\* one row
C26_OneRowAfterAllCalls ==
    /\ Len(system_state) = 1
    /\ count.scans = MaxScans
    /\ count.runs > 0
    /\ system_state[1].total_items_processed > 0
    /\ Paused(system_state)
    /\ ~AutoPaused(system_state)
    /\ system_state[1].products_found_in_last_scan <= AutoPauseThreshold

\* the row of the item the task p is at work on, in the state before the
\* step and in the state after it
ItemStatus(p) ==
    IF OnProduct(proc[p]) THEN StatusOf(products, CurrentRow(proc[p]))
                          ELSE StatusOf(collections, CurrentRow(proc[p]))

ItemStatusAfter(p) ==
    IF OnProduct(proc'[p]) THEN StatusOf(products', CurrentRow(proc'[p]))
                           ELSE StatusOf(collections', CurrentRow(proc'[p]))

\* C27: the step that takes a task to the generator calls for an item has
\* committed status processing for that item; the generator is called for
\* an item whose committed status is processing; and the provider is called
\* for an item only after the generator calls for it.
C27_ProcessingBeforeCalls ==
    [][\A p \in Procs :
          /\ (proc[p].pc # "generate" /\ proc'[p].pc = "generate") =>
                ItemStatusAfter(p) = "processing"
          /\ (proc[p].pc = "generate" /\ proc'[p] # proc[p]) =>
                ItemStatus(p) = "processing"
          /\ (proc[p].pc # "update" /\ proc'[p].pc = "update") =>
                /\ proc[p].pc = "generate"
                /\ CurrentRow(proc'[p]) = CurrentRow(proc[p])]_vars

\* C27, witness: a task waits for the provider's answer to update_product
\* and the product is processing in the table
C27_ProcessingDuringCall ==
    \E p \in Procs :
       /\ proc[p].pc = "update"
       /\ ItemStatus(p) = "processing"

\* C29: a task selects at most ProductBatch products and CollectionBatch
\* collections, no more than 5 items in all and none of them twice, however
\* many rows are pending; after that its selection only loses its head,
\* item after item.
C29_BoundedBatch ==
    [][\A p \in Procs :
          /\ (proc[p].pc = "idle" /\ proc'[p].pc # "idle") =>
                /\ Len(proc'[p].pending_products) <= ProductBatch
                /\ Len(proc'[p].pending_collections) <= CollectionBatch
                /\ Len(proc'[p].pending_products)
                      + Len(proc'[p].pending_collections) <= 5
                /\ ~HasDuplicate(proc'[p].pending_products)
                /\ ~HasDuplicate(proc'[p].pending_collections)
          /\ (proc[p].pc # "idle" /\ proc'[p].pc # "idle") =>
                /\ \/ proc'[p].pending_products = proc[p].pending_products
                   \/ proc'[p].pending_products =
                         Tail(proc[p].pending_products)
                /\ \/ proc'[p].pending_collections =
                         proc[p].pending_collections
                   \/ proc'[p].pending_collections =
                         Tail(proc[p].pending_collections)]_vars

\* C29, witness: a task has selected ProductBatch products and more than 5
\* products are pending besides
C29_MoreEligibleThanSelected ==
    \E p \in Procs :
       /\ proc[p].pc = "generate"
       /\ Len(proc[p].pending_products) = ProductBatch
       /\ Cardinality({k \in Keys(products) :
                          StatusOf(products, k) = "pending"}) > 5

\* the rows the tasks in progress have selected and not yet worked off
SelectedProducts == UNION {Range(proc[p].pending_products) : p \in Procs}

SelectedCollections ==
    UNION {Range(proc[p].pending_collections) : p \in Procs}

\* C28: a row left with status processing by a task that has gone on or
\* ended (no task in progress has it in its selection) is left as it is by
\* every step of every scan_all request and task, and no task selects it.
C28_ProcessingNotRetried ==
    [][/\ \A k \in DOMAIN products.upd :
             (StatusOf(products, k) = "processing"
                /\ k \notin SelectedProducts) =>
                /\ Row(products', k) = Row(products, k)
                /\ k \notin UNION {Range(proc'[p].pending_products) :
                                      p \in Procs}
       /\ \A k \in DOMAIN collections.upd :
             (StatusOf(collections, k) = "processing"
                /\ k \notin SelectedCollections) =>
                /\ Row(collections', k) = Row(collections, k)
                /\ k \notin UNION {Range(proc'[p].pending_collections) :
                                      p \in Procs}]_vars

\* C28, witness: the first product was left processing by the task that
\* selected it, and a task that started later has selected the second
\* product only
C28_LaterTaskSkipsProcessing ==
    \E p \in Procs :
       /\ proc[p].pc = "generate"
       /\ proc[p].pending_products = <<2>>
       /\ proc[p].total_processed = 0
       /\ StatusOf(products, 1) = "processing"
       /\ 1 \notin SelectedProducts

\* C31: a get_collections call whose smart collections request was answered
\* 200 and whose custom collections request failed in transport returns the
\* smart collections it has fetched.
C31_PartialListingKept ==
    \A i \in DOMAIN client :
       (/\ client[i].smart_response = "ok"
        /\ client[i].custom_response = "transport_error") =>
          client[i].result = Catalogs[client[i].catalog].smart

\* C32: a task is at work on one item at a time; its work on an item ends
\* in the sleep, whether the item was completed or failed; and an item is
\* marked processing only when the task starts or when its sleep is over.
C32_DelayAfterEveryItem ==
    [][\A p \in Procs :
          /\ (Working(p) /\ proc'[p] # proc[p]) =>
                \/ /\ proc[p].pc = "generate"
                   /\ proc'[p].pc = "update"
                   /\ CurrentRow(proc'[p]) = CurrentRow(proc[p])
                \/ /\ proc'[p].pc = "sleep"
                   /\ StatusGiven(p) \in {"completed", "failed"}
          /\ (proc[p].pc # "generate" /\ proc'[p].pc = "generate") =>
                proc[p].pc \in {"idle", "sleep"}
          /\ (proc[p].pc = "sleep" /\ proc'[p] # proc[p]) =>
                proc'[p].pc \in {"generate", "idle"}]_vars

\* C32, witness: a task sleeps after the first product, which it failed,
\* with the second product still to come
C32_SleepAfterFailedItem ==
    \E p \in Procs :
       /\ proc[p].pc = "sleep"
       /\ proc[p].pending_products = <<2>>
       /\ proc[p].total_processed = 0
       /\ StatusOf(products, 1) = "failed"
       /\ StatusOf(products, 2) = "pending"

\* the number of rows a step has inserted in the two tables
InsertedRows ==
    Cardinality(Inserted(products, products'))
    + Cardinality(Inserted(collections, collections'))

\* C35: the step that ends a scan_all request adds a process_pending_items
\* task exactly when it has inserted a row and is_paused is false after its
\* commit; a scan that trips the auto-pause adds none.
C35_AutoTrigger ==
    [][\A s \in Scans :
          ScanEnds(s) =>
             /\ scheduled' =
                   IF InsertedRows > 0 /\ ~Paused(system_state')
                      THEN scheduled + 1 ELSE scheduled
             /\ InsertedRows > AutoPauseThreshold =>
                   scheduled' = scheduled]_vars

\* C35, witness: the one scan so far has tripped the auto-pause and no task
\* was added or started
C35_TrippedWithoutTask ==
    /\ count.scans = 1
    /\ count.triggers = 0
    /\ count.runs = 0
    /\ AutoPaused(system_state)
    /\ Len(products.ids) > AutoPauseThreshold
    /\ scheduled = 0

\* C36: rows are inserted only by the commit that ends a scan_all request,
\* and a commit that inserts more than 100 rows sets is_paused with them:
\* no state shows the rows without the flag.
C36_RowsAndFlagsTogether ==
    [][/\ (products'.ids # products.ids
             \/ collections'.ids # collections.ids) =>
             \E s \in Scans : ScanEnds(s)
       /\ InsertedRows > AutoPauseThreshold =>
             /\ Paused(system_state')
             /\ \A p \in Procs : proc'[p] = proc[p]]_vars

\* C36, witness: a scan has tripped the auto-pause while a task was in
\* progress
C36_TrippedDuringTask ==
    /\ AutoPaused(system_state)
    /\ Len(products.ids) > AutoPauseThreshold
    /\ \E p \in Procs : proc[p].pc = "sleep"

\* C37: auto_pause_triggered is true only while is_paused is true.
C37_AutoPauseImpliesPaused ==
    AutoPaused(system_state) => Paused(system_state)

\* C37, witness: the second scan has tripped the auto-pause after a
\* toggle_pause call had paused the system and another had resumed it
C37_TrippedAfterToggles ==
    /\ AutoPaused(system_state)
    /\ system_state[1].last_scan = 2
    /\ count.runs = 0
    /\ scheduled = 0

\* C33: when the first dashboard read of a cycle gives no data or reports
\* is_paused = true, the cycle ends there: the worker goes back to its
\* sleep, and no scan and no task was requested.
C33_PausedCycleRequestsNothing ==
    [][(worker.pc = "dashboard" /\ worker'.pc # "dashboard") =>
          LET data == worker'.dashboard_data IN
          /\ data # <<>> => data[1].is_paused = Paused(system_state')
          /\ (data = <<>> \/ data[1].is_paused) =>
                /\ worker'.pc = "sleep"
                /\ count' = count
                /\ scheduled' = scheduled
                /\ scan' = scan]_vars

\* C33, witness: the second cycle has ended at a dashboard that reported a
\* paused system, and the worker has requested no scan
C33_CycleEndedPaused ==
    /\ worker.pc = "sleep"
    /\ worker.cycles = 2
    /\ worker.dashboard_data # <<>>
    /\ worker.dashboard_data[1].is_paused
    /\ count.scans = 0

\* C34: after the worker's own scan has tripped the auto-pause, the cycle
\* ends without a processing request, whatever the dashboard reads that
\* follow the scan return.
C34_NoProcessingAfterOwnTrip ==
    [][(worker.pc \in {"recheck", "final"} /\ AutoPaused(system_state)) =>
          worker'.pc # "process"]_vars

\* C38: while the system is never paused and process_pending_items is
\* started again and again, with every awaited call returning, every row
\* that is pending is later completed or failed.
C38_PendingItemsEnd ==
    \A k \in 1..Len(Catalogs[1].products) :
       (k \in Keys(products) /\ StatusOf(products, k) = "pending")
          ~> (StatusOf(products, k) \in {"completed", "failed"})

====
